---- MODULE Spec2Model ----
(***************************************************************************)
(* Model of package unused (src/unused2/unused.go): the reachability graph *)
(* built by Graph.entry, coloured by Graph.color, and the quieting and     *)
(* reporting passes of Checker.Check.                                      *)
(*                                                                         *)
(* A package under analysis is a record of tables, the output of the type  *)
(* checker and of the SSA builder:                                         *)
(*   ty   type id     -> the type (kind, identity key, components)         *)
(*   ob   object id   -> the types.Object (kind, package, exported, ...)   *)
(*   fn   function id -> the ssa.Function (object, signature, body)        *)
(*   val  value id    -> an ssa.Value that a call or return refers to      *)
(*   fv   Func object -> ssa.Program.FuncValue                             *)
(*   ms   type id     -> the method set (selections with their paths)      *)
(*   defs, uses, members, initfns: types.Info.Defs, types.Info.Uses,       *)
(*   ssa.Package.Members, lint.Program.InitialFunctions.                   *)
(***************************************************************************)
EXTENDS Integers, Sequences, FiniteSets, TLC

VARIABLES
  pkg,       \* the tables of the package under analysis; pkg.is names it
  pc,        \* position of Checker.Check in its body
  g,         \* the Graph: nodes, edges, seenTypes, seenFns, failed assertion
  todo,      \* what the running loop of Graph.entry has still to visit
  seen,      \* nodes with Node.seen = true
  stack,     \* the call stack of the recursive Graph.color
  quiet,     \* nodes with Node.quiet = true
  out        \* the Unused records appended so far: <<node, object>>

vars == <<pkg, pc, g, todo, seen, stack, quiet, out>>

NIL == "nil"
Root == "Root"
\* the path of the package under analysis and of an imported package
ThisPkg == "p"
OtherPkg == "q"

-----------------------------------------------------------------------------
(* The packages analysed.  Every table entry is a full record; the        *)
(* constructors below fill in what a kind of entity does not have.        *)

\* a table without entries
NoEntry == [x \in {} |-> x]

TBase ==
  [kind |-> "Basic", key |-> NIL, obj |-> NIL, under |-> NIL,
   methods |-> <<>>, fields |-> <<>>, elem |-> NIL, mapkey |-> NIL,
   recv |-> NIL, params |-> NoEntry, results |-> <<>>, vars |-> <<>>,
   unsafe |-> FALSE]
OBase ==
  [kind |-> "Var", pkg |-> ThisPkg, exported |-> FALSE, isField |-> FALSE,
   anonymous |-> FALSE, type |-> NIL, scopeFn |-> NIL, name |-> ""]
FBase ==
  [object |-> NIL, name |-> "", sig |-> "func()", pkg |-> ThisPkg,
   instrs |-> <<>>, anon |-> <<>>, uses |-> <<>>, syntax |-> TRUE]
IBase ==
  [op |-> "Other", typ |-> NIL, x |-> NIL, fld |-> 0, val |-> NIL,
   vals |-> <<>>, meth |-> NIL, fn |-> NIL]
VBase == [vk |-> "Other", fn |-> NIL, inner |-> NIL, edges |-> <<>>]

Basic(k) == [TBase EXCEPT !.key = k]
Named(k, o, u, ms) ==
  [TBase EXCEPT !.kind = "Named", !.key = k, !.obj = o, !.under = u,
                !.methods = ms]
Struct(k, fs) == [TBase EXCEPT !.kind = "Struct", !.key = k, !.fields = fs]
Pointer(k, e) == [TBase EXCEPT !.kind = "Pointer", !.key = k, !.elem = e]
Slice(k, e) == [TBase EXCEPT !.kind = "Slice", !.key = k, !.elem = e]
Array(k, e) == [TBase EXCEPT !.kind = "Array", !.key = k, !.elem = e]
Chan(k, e) == [TBase EXCEPT !.kind = "Chan", !.key = k, !.elem = e]
Map(k, mk, e) ==
  [TBase EXCEPT !.kind = "Map", !.key = k, !.mapkey = mk, !.elem = e]
Interface(k, ms) ==
  [TBase EXCEPT !.kind = "Interface", !.key = k, !.methods = ms]
Signature(k, r, ps, rs) ==
  [TBase EXCEPT !.kind = "Signature", !.key = k, !.recv = r, !.params = ps,
                !.results = rs]

TypeName(t, x, p) ==
  [OBase EXCEPT !.kind = "TypeName", !.type = t, !.exported = x, !.pkg = p]
Field(n, t, x, a, p) ==
  [OBase EXCEPT !.isField = TRUE, !.name = n, !.type = t, !.exported = x,
                !.anonymous = a, !.pkg = p]
Var(t, p) == [OBase EXCEPT !.type = t, !.pkg = p]
Func(n, t, x, p) ==
  [OBase EXCEPT !.kind = "Func", !.name = n, !.type = t, !.exported = x,
                !.pkg = p]
Const(t, x, sf, p) ==
  [OBase EXCEPT !.kind = "Const", !.type = t, !.exported = x, !.scopeFn = sf,
                !.pkg = p]

Function(o, n, sg, is) ==
  [FBase EXCEPT !.object = o, !.name = n, !.sig = sg, !.instrs = is]

\* instructions
Value(t) == [IBase EXCEPT !.typ = t]     \* Alloc, UnOp, ...: only a type
FieldAddr(x, i, t) ==
  [IBase EXCEPT !.op = "FieldAddr", !.x = x, !.fld = i, !.typ = t]
ChangeType(t, x) == [IBase EXCEPT !.op = "ChangeType", !.typ = t, !.x = x]
Convert(t, x) == [IBase EXCEPT !.op = "Convert", !.typ = t, !.x = x]
Call(v, t) == [IBase EXCEPT !.op = "Call", !.val = v, !.typ = t]
Invoke(m, t) == [IBase EXCEPT !.op = "Invoke", !.meth = m, !.typ = t]
Return(vs) == [IBase EXCEPT !.op = "Return", !.vals = vs]
MakeClosure(f, t) == [IBase EXCEPT !.op = "MakeClosure", !.fn = f, !.typ = t]

\* the elements of a small set, in a sequence
RECURSIVE SetToSeq(_)
SetToSeq(S) ==
  IF S = {} THEN <<>>
  ELSE CHOOSE q \in {<<x>> \o SetToSeq(S \ {x}) :
                      x \in {CHOOSE y \in S : TRUE}} : TRUE

\* the n-th choice among Product(rs) combinations: one index per radix
RECURSIVE Digits(_, _), Product(_)
Digits(n, rs) ==
  IF rs = <<>> THEN <<>>
  ELSE <<(n % Head(rs)) + 1>> \o Digits(n \div Head(rs), Tail(rs))
Product(rs) == IF rs = <<>> THEN 1 ELSE Head(rs) * Product(Tail(rs))

\* what every package has: int, unsafe.Pointer and func()
CommonTypes ==
  "int" :> Basic("int")
  @@ "unsafe.Pointer" :> [Basic("unsafe.Pointer") EXCEPT !.unsafe = TRUE]
  @@ "*int" :> Pointer("*int", "int")
  @@ "func()" :> Signature("func()", NIL, <<>>, <<>>)

-----------------------------------------------------------------------------
(* Packages with two struct types:                                        *)
(*   type S1 struct{ ... }; type S2 struct{ ... }; var v1 S1; var v2 S2   *)
(*   func F() { bodyF }; func g() { bodyG }                               *)
(* A field is named A<i> when exported and a<i> when not, and has type    *)
(* int, so the two struct types are identical when the same fields are    *)
(* exported; only then can one be converted to the other.                 *)

\* fields of each struct
NumFields == 1

FieldId(s, i) == s \o ".f" \o ToString(i)
FieldIds(s) == [i \in 1..NumFields |-> FieldId(s, i)]
FieldObs(s, e) ==
  [f \in {FieldId(s, i) : i \in 1..NumFields} |->
     LET i == CHOOSE j \in 1..NumFields : FieldId(s, j) = f
     IN Field((IF i \in e THEN "A" ELSE "a") \o ToString(i), "int", i \in e,
              FALSE, ThisPkg)]

\* the bodies of F and g
Bodies == {"none", "conv", "unsafe", "field"}
Body(b) ==
  CASE b = "none" -> <<Return(<<>>)>>
       \* _ = S2(v1)
    [] b = "conv" -> <<Value("S1"), ChangeType("S2", "S1"), Return(<<>>)>>
       \* p := unsafe.Pointer(&v1); _ = (*S2)(p)
    [] b = "unsafe" ->
         <<Convert("unsafe.Pointer", "*S1"), Convert("*S2", "unsafe.Pointer"),
           Return(<<>>)>>
       \* _ = v2.f1
    [] b = "field" ->
         <<FieldAddr("*S2", 1, "*int"), Value("int"), Return(<<>>)>>

StructPkg(c) ==
  [name |-> "p", is |-> c,
   ty |-> CommonTypes
          @@ "S1" :> Named("S1", "S1.name", "struct1", <<>>)
          @@ "S2" :> Named("S2", "S2.name", "struct2", <<>>)
          @@ "struct1" :> Struct("struct1", FieldIds("S1"))
          @@ "struct2" :> Struct(IF c.e1 = c.e2 THEN "struct1" ELSE "struct2",
                                 FieldIds("S2"))
          @@ "*S1" :> Pointer("*S1", "S1")
          @@ "*S2" :> Pointer("*S2", "S2"),
   ob |-> FieldObs("S1", c.e1) @@ FieldObs("S2", c.e2)
          @@ "S1.name" :> TypeName("S1", c.x1, ThisPkg)
          @@ "S2.name" :> TypeName("S2", c.x2, ThisPkg)
          @@ "F.obj" :> Func("F", "func()", TRUE, ThisPkg)
          @@ "g.obj" :> Func("g", "func()", FALSE, ThisPkg),
   fn |-> "F" :> Function("F.obj", "F", "func()", Body(c.bF))
          @@ "g" :> Function("g.obj", "g", "func()", Body(c.bG)),
   val |-> NoEntry,
   fv |-> "F.obj" :> "F" @@ "g.obj" :> "g",
   ms |-> NoEntry,
   defs |-> {"S1.name", "S2.name", "F.obj"},
   uses |-> {},
   members |-> {"S1.name", "S2.name", "F", "g"},
   initfns |-> <<"F", "g">>]

\* the packages of this family, in a sequence
StructParams ==
  LET E == SetToSeq(SUBSET (1..NumFields))
      B == <<FALSE, TRUE>>
      Bo == SetToSeq(Bodies)
      rs == <<Len(E), Len(E), 2, 2, Len(Bo), Len(Bo)>>
      all == [i \in 1..Product(rs) |->
                LET dg == Digits(i - 1, rs) IN
                [fam |-> "struct", e1 |-> E[dg[1]], e2 |-> E[dg[2]],
                 x1 |-> B[dg[3]], x2 |-> B[dg[4]], bF |-> Bo[dg[5]],
                 bG |-> Bo[dg[6]]]]
      Compiles(c) == "conv" \in {c.bF, c.bG} => c.e1 = c.e2
  IN SelectSeq(all, Compiles)

-----------------------------------------------------------------------------
(* Packages with an interface and a chain of embedded structs:            *)
(*   type I interface{ m() }                                              *)
(*   type T struct{ e1 }; type e1 struct{ e2 }; ... type e<d> struct{..}  *)
(*   func F() {}; func g() { bodyG }                                      *)
(* The method m is, by the parameter leaf,                                *)
(*   "concrete"  declared on e<d> (on T when d = 0);                      *)
(*   "local"     the method of an interface j that e<d> embeds;           *)
(*   "foreign"   the method of an imported interface q.J that e<d> embeds;*)
(*   "imported"  promoted from q.R, an imported struct that e<d> embeds   *)
(*               and that itself embeds q.inner, which declares it.       *)
(* With an imported leaf the method is exported (named M): a method of    *)
(* another package is visible only then.                                  *)

\* the longest chain of embedded structs below T
ChainLen == 2

Leaves == {"concrete", "local", "foreign", "imported"}

Chain(i) == IF i = 0 THEN "T" ELSE "e" \o ToString(i)
ChainIndex(t, d) == CHOOSE i \in 0..d : Chain(i) = t
StructId(t) == "struct." \o t
EmbId(t) == t \o ".emb"
NameId(t) == t \o ".name"

\* the fields below the last struct of the chain, before the method
LeafDepth(leaf) ==
  CASE leaf = "concrete" -> 0 [] leaf = "imported" -> 2 [] OTHER -> 1

\* the object that the method sets select for m
LeafMethod(leaf) ==
  CASE leaf = "concrete" -> "m.obj" [] leaf = "local" -> "j.m"
    [] leaf = "foreign" -> "q.J.M" [] leaf = "imported" -> "q.inner.M.obj"

MethodExported(c) == c.xm \/ c.leaf \in {"foreign", "imported"}
MethodName(c) == IF MethodExported(c) THEN "M" ELSE "m"

\* the selection of m in the method set of a type n fields above it
Selection(c, n) ==
  {[name |-> MethodName(c), obj |-> LeafMethod(c.leaf),
    path |-> [k \in 1..(n + 1) |-> 1]]}

\* the type of the field that the last struct of the chain embeds
LeafFieldType(leaf) ==
  CASE leaf = "local" -> "j" [] leaf = "foreign" -> "q.J"
    [] leaf = "imported" -> "q.R"

\* the struct type of the i-th named type of the chain
ChainStruct(c, i) ==
  IF i < c.d \/ c.leaf # "concrete"
  THEN Struct(StructId(Chain(i)), <<EmbId(Chain(i))>>)
  ELSE Struct(StructId(Chain(i)), <<>>)

\* the interface types of I and of j are identical: the same method
IfaceTypes(c) ==
  "I" :> Named("I", "I.name", "iface.I", <<>>)
  @@ "iface.I" :> Interface("iface.I", <<"I.m">>)
  @@ "sig.I.m" :> Signature("sig.I.m", "I.m.recv", <<>>, <<>>)
  @@ "()" :> [TBase EXCEPT !.kind = "Tuple", !.key = "()"]
  @@ (CASE c.leaf = "concrete" ->
             "sig.m" :> Signature("sig.m", "m.recv", <<>>, <<>>)
        [] c.leaf = "local" ->
             "j" :> Named("j", "j.name", "iface.j", <<>>)
             @@ "iface.j" :> Interface("iface.I", <<"j.m">>)
             @@ "sig.j.m" :> Signature("sig.j.m", "j.m.recv", <<>>, <<>>)
        [] c.leaf = "foreign" ->
             "q.J" :> Named("q.J", "q.J.name", "iface.q.J", <<>>)
             @@ "iface.q.J" :> Interface("iface.q.J", <<"q.J.M">>)
        [] c.leaf = "imported" ->
             "q.R" :> Named("q.R", "q.R.name", "struct.q.R", <<>>)
             @@ "struct.q.R" :> Struct("struct.q.R", <<"q.R.emb">>)
             @@ "q.inner" :> Named("q.inner", "q.inner.name", "struct.q.inner",
                                   <<"q.inner.M.obj">>)
             @@ "struct.q.inner" :> Struct("struct.q.inner", <<>>))

IfaceObjects(c) ==
  "I.name" :> TypeName("I", c.xI, ThisPkg)
  @@ "I.m" :> Func(MethodName(c), "sig.I.m", MethodExported(c), ThisPkg)
  @@ "I.m.recv" :> Var("I", ThisPkg)
  @@ "F.obj" :> Func("F", "func()", TRUE, ThisPkg)
  @@ "g.obj" :> Func("g", "func()", FALSE, ThisPkg)
  @@ "q.Println.obj" :> Func("Println", "func()", TRUE, OtherPkg)
  @@ (CASE c.leaf = "concrete" ->
             "m.obj" :> Func(MethodName(c), "sig.m", MethodExported(c), ThisPkg)
             @@ "m.recv" :> Var(Chain(c.d), ThisPkg)
        [] c.leaf = "local" ->
             "j.name" :> TypeName("j", FALSE, ThisPkg)
             @@ "j.m" :> Func(MethodName(c), "sig.j.m", MethodExported(c),
                              ThisPkg)
             @@ "j.m.recv" :> Var("j", ThisPkg)
             @@ EmbId(Chain(c.d)) :> Field("j", "j", FALSE, TRUE, ThisPkg)
        [] c.leaf = "foreign" ->
             "q.J.name" :> TypeName("q.J", TRUE, OtherPkg)
             @@ "q.J.M" :> Func("M", "func()", TRUE, OtherPkg)
             @@ EmbId(Chain(c.d)) :> Field("J", "q.J", TRUE, TRUE, ThisPkg)
        [] c.leaf = "imported" ->
             "q.R.name" :> TypeName("q.R", TRUE, OtherPkg)
             @@ "q.R.emb" :> Field("inner", "q.inner", FALSE, TRUE, OtherPkg)
             @@ "q.inner.name" :> TypeName("q.inner", FALSE, OtherPkg)
             @@ "q.inner.M.obj" :> Func("M", "func()", TRUE, OtherPkg)
             @@ EmbId(Chain(c.d)) :> Field("R", "q.R", TRUE, TRUE, ThisPkg))

\* func g() { q.Println() }
BodyG(b) ==
  IF b = "foreign" THEN <<Call("v.q.Println", "()"), Return(<<>>)>>
  ELSE <<Return(<<>>)>>

IfacePkg(c) ==
  [name |-> "p", is |-> c,
   ty |-> CommonTypes @@ IfaceTypes(c)
          @@ [t \in {Chain(i) : i \in 0..c.d} |->
                Named(t, NameId(t), StructId(t),
                      IF t = Chain(c.d) /\ c.leaf = "concrete"
                      THEN <<"m.obj">> ELSE <<>>)]
          @@ [s \in {StructId(Chain(i)) : i \in 0..c.d} |->
                ChainStruct(c, CHOOSE i \in 0..c.d : StructId(Chain(i)) = s)],
   ob |-> IfaceObjects(c)
          @@ [o \in {NameId(Chain(i)) : i \in 0..c.d} |->
                LET t == Chain(CHOOSE i \in 0..c.d : NameId(Chain(i)) = o)
                IN TypeName(t, t = "T" /\ c.xT, ThisPkg)]
          @@ [f \in {EmbId(Chain(i)) : i \in 0..(c.d - 1)} |->
                LET i == CHOOSE k \in 0..(c.d - 1) : EmbId(Chain(k)) = f
                IN Field(Chain(i + 1), Chain(i + 1), FALSE, TRUE, ThisPkg)],
   fn |-> "F" :> Function("F.obj", "F", "func()", <<Return(<<>>)>>)
          @@ "g" :> Function("g.obj", "g", "func()", BodyG(c.bG))
          @@ "q.Println" :>
               [Function("q.Println.obj", "Println", "func()", <<>>)
                  EXCEPT !.pkg = OtherPkg]
          @@ (CASE c.leaf = "concrete" ->
                     "m.fn" :> Function("m.obj", MethodName(c), "sig.m",
                                        <<Return(<<>>)>>)
                [] c.leaf = "imported" ->
                     "q.inner.M" :>
                        [Function("q.inner.M.obj", "M", "func()", <<>>)
                           EXCEPT !.pkg = OtherPkg]
                [] OTHER -> NoEntry),
   val |-> "v.q.Println" :> [VBase EXCEPT !.vk = "Function", !.fn = "q.Println"],
   fv |-> "F.obj" :> "F" @@ "g.obj" :> "g" @@ "q.Println.obj" :> "q.Println"
          @@ "I.m" :> NIL @@ "j.m" :> NIL @@ "q.J.M" :> NIL
          @@ "m.obj" :> "m.fn" @@ "q.inner.M.obj" :> "q.inner.M",
   ms |-> [t \in {Chain(i) : i \in 0..c.d} |->
             Selection(c, c.d - ChainIndex(t, c.d) + LeafDepth(c.leaf))]
          @@ [s \in {StructId(Chain(i)) : i \in 0..c.d} |->
                LET i == CHOOSE k \in 0..c.d : StructId(Chain(k)) = s IN
                IF i = c.d /\ c.leaf = "concrete" THEN {}
                ELSE Selection(c, c.d - i + LeafDepth(c.leaf))]
          @@ "j" :> Selection(c, 0) @@ "q.J" :> Selection(c, 0)
          @@ "q.R" :> Selection(c, 1) @@ "q.inner" :> Selection(c, 0),
   defs |-> {"I.name", "F.obj"} \cup {NameId(Chain(i)) : i \in 0..c.d}
            \cup (IF c.leaf = "local" THEN {"j.name"} ELSE {}),
   uses |-> {},
   members |-> {"I.name", "F", "g"} \cup {NameId(Chain(i)) : i \in 0..c.d}
               \cup (IF c.leaf = "local" THEN {"j.name"} ELSE {}),
   initfns |-> <<"F", "g">>
               \o (IF c.leaf = "concrete" THEN <<"m.fn">> ELSE <<>>)]

\* the packages of this family, in a sequence
IfaceParams ==
  LET B == <<FALSE, TRUE>>
      L == SetToSeq(Leaves)
      G == <<"none", "foreign">>
      rs == <<2, 2, 2, ChainLen + 1, Len(L), 2>>
  IN [i \in 1..Product(rs) |->
        LET dg == Digits(i - 1, rs) IN
        [fam |-> "iface", xI |-> B[dg[1]], xT |-> B[dg[2]], xm |-> B[dg[3]],
         d |-> dg[4] - 1, leaf |-> L[dg[5]], bG |-> G[dg[6]]]]

-----------------------------------------------------------------------------
(* Packages with constants:                                               *)
(*   type k int                      (when the constant has a named type; *)
(*                                    named K when exported)              *)
(*   const C k = 1                   (named c when not exported)          *)
(*   var v = C                       (when used at package level)         *)
(*   func F() {}                                                          *)
(*   func g() { const L = 2; _ = C } (L when loc, _ = C when used in g)   *)
(* A function's uses are the identifiers of its syntax that types.Info.Uses *)
(* resolves; uses pairs every such identifier of the package, inside a    *)
(* function or not, with its object.                                      *)

ConstUses == {"none", "func", "pkg", "both"}

ConstPkg(c) ==
  [name |-> "p", is |-> c,
   ty |-> CommonTypes @@ "k" :> Named("k", "k.name", "int", <<>>),
   ob |-> "C" :> Const(IF c.tk THEN "k" ELSE "int", c.xc, NIL, ThisPkg)
          @@ "L" :> Const("int", TRUE, "g", ThisPkg)
          @@ "k.name" :> TypeName("k", c.xk, ThisPkg)
          @@ "int.name" :> TypeName("int", FALSE, NIL)
          @@ "F.obj" :> Func("F", "func()", TRUE, ThisPkg)
          @@ "g.obj" :> Func("g", "func()", FALSE, ThisPkg),
   fn |-> "F" :> Function("F.obj", "F", "func()", <<Return(<<>>)>>)
          @@ "g" :> [Function("g.obj", "g", "func()", <<Return(<<>>)>>)
                       EXCEPT !.uses = IF c.use \in {"func", "both"}
                                       THEN <<"C in g">> ELSE <<>>],
   val |-> NoEntry,
   fv |-> "F.obj" :> "F" @@ "g.obj" :> "g",
   ms |-> NoEntry,
   defs |-> {"C", "F.obj", "g.obj"}
            \cup (IF c.tk THEN {"k.name"} ELSE {})
            \cup (IF c.loc THEN {"L"} ELSE {}),
   uses |-> (IF c.tk THEN {<<"k in const C k", "k.name">>}
             ELSE {<<"int in const C int", "int.name">>})
            \cup (IF c.use \in {"func", "both"}
                  THEN {<<"C in g", "C">>} ELSE {})
            \cup (IF c.use \in {"pkg", "both"}
                  THEN {<<"C in var v", "C">>} ELSE {}),
   members |-> {"C", "F", "g"}
               \cup (IF c.tk THEN {"k.name"} ELSE {})
               \cup (IF c.use \in {"pkg", "both"} THEN {"v"} ELSE {}),
   initfns |-> <<"F", "g">>]

\* the packages of this family, in a sequence
ConstParams ==
  LET B == <<FALSE, TRUE>>
      U == SetToSeq(ConstUses)
      rs == <<2, 2, Len(U), 2, 2>>
      all == [i \in 1..Product(rs) |->
                LET dg == Digits(i - 1, rs) IN
                [fam |-> "const", xc |-> B[dg[1]], tk |-> B[dg[2]],
                 use |-> U[dg[3]], loc |-> B[dg[4]], xk |-> B[dg[5]]]]
      Distinct(c) == c.xk => c.tk
  IN SelectSeq(all, Distinct)

-----------------------------------------------------------------------------
(* Packages with one function that holds a value of a composite type:     *)
(*   func F() { var x T; _ = x }                                          *)

ElemTypes ==
  {"int", "*int", "**int", "chan int", "[]int", "[2]int", "[]chan int",
   "map[int]int"}

WalkPkg(c) ==
  [name |-> "p", is |-> c,
   ty |-> CommonTypes
          @@ "**int" :> Pointer("**int", "*int")
          @@ "chan int" :> Chan("chan int", "int")
          @@ "[]int" :> Slice("[]int", "int")
          @@ "[2]int" :> Array("[2]int", "int")
          @@ "[]chan int" :> Slice("[]chan int", "chan int")
          @@ "map[int]int" :> Map("map[int]int", "int", "int"),
   ob |-> "F.obj" :> Func("F", "func()", c.xF, ThisPkg),
   fn |-> "F" :> Function("F.obj", "F", "func()",
                          <<Value(c.tv), Return(<<>>)>>),
   val |-> NoEntry, fv |-> "F.obj" :> "F", ms |-> NoEntry,
   defs |-> {"F.obj"}, uses |-> {}, members |-> {"F"}, initfns |-> <<"F">>]

\* the packages of this family, in a sequence
WalkParams ==
  LET B == <<FALSE, TRUE>>
      T == SetToSeq(ElemTypes)
      rs == <<Len(T), 2>>
  IN [i \in 1..Product(rs) |->
        LET dg == Digits(i - 1, rs) IN
        [fam |-> "walk", tv |-> T[dg[1]], xF |-> B[dg[2]]]]

-----------------------------------------------------------------------------
(* Packages with recursive types, recursive functions and wrappers:       *)
(*   type T struct{ u *U }; type U struct{ t *T }                         *)
(*   func (T) m() {}                                                      *)
(*   func F() { bodyF }              (f when not exported)                *)
(*   func g() { bodyG }                                                   *)
(* bodyF is nothing, F(), g(), T{}.m(), a call of W2 or var t T; bodyG is *)
(* nothing, F() or the method value t.m.                                  *)
(* W1 is a synthetic wrapper of m that calls m, W2 one that calls W1, and *)
(* m$bound the bound method closure of m: their object is the method m,   *)
(* whose canonical function is m itself, and they belong to no package.   *)

BodiesF == {"none", "self", "callg", "method", "chain", "value"}
BodiesG == {"none", "callF", "bound"}

\* the instructions of F and of g
RecBodyF(b) ==
  CASE b = "self" -> <<Call("v.F", "()"), Return(<<>>)>>
    [] b = "callg" -> <<Call("v.g", "()"), Return(<<>>)>>
    [] b = "method" -> <<Call("v.m", "()"), Return(<<>>)>>
    [] b = "chain" -> <<Call("v.W2", "()"), Return(<<>>)>>
    [] b = "value" -> <<Value("T"), Return(<<>>)>>
    [] OTHER -> <<Return(<<>>)>>
RecBodyG(b) ==
  CASE b = "callF" -> <<Call("v.F", "()"), Return(<<>>)>>
    [] b = "bound" -> <<MakeClosure("m$bound", "func()"), Return(<<>>)>>
    [] OTHER -> <<Return(<<>>)>>

RecPkg(c) ==
  [name |-> "p", is |-> c,
   ty |-> CommonTypes
          @@ "()" :> [TBase EXCEPT !.kind = "Tuple", !.key = "()"]
          @@ "T" :> Named("T", "T.name", "struct.T", <<"m.obj">>)
          @@ "U" :> Named("U", "U.name", "struct.U", <<>>)
          @@ "struct.T" :> Struct("struct.T", <<"T.u">>)
          @@ "struct.U" :> Struct("struct.U", <<"U.t">>)
          @@ "*T" :> Pointer("*T", "T")
          @@ "*U" :> Pointer("*U", "U")
          @@ "sig.m" :> Signature("sig.m", "m.recv", <<>>, <<>>),
   ob |-> "T.name" :> TypeName("T", FALSE, ThisPkg)
          @@ "U.name" :> TypeName("U", FALSE, ThisPkg)
          @@ "T.u" :> Field("u", "*U", FALSE, FALSE, ThisPkg)
          @@ "U.t" :> Field("t", "*T", FALSE, FALSE, ThisPkg)
          @@ "m.recv" :> Var("T", ThisPkg)
          @@ "m.obj" :> Func("m", "sig.m", FALSE, ThisPkg)
          @@ "F.obj" :> Func("F", "func()", c.xF, ThisPkg)
          @@ "g.obj" :> Func("g", "func()", FALSE, ThisPkg),
   fn |-> "F" :> Function("F.obj", "F", "func()", RecBodyF(c.bF))
          @@ "g" :> Function("g.obj", "g", "func()", RecBodyG(c.bG))
          @@ "m.fn" :> Function("m.obj", "m", "sig.m", <<Return(<<>>)>>)
          @@ "W1" :> [Function("m.obj", "m$thunk", "func()",
                               <<Call("v.m", "()"), Return(<<>>)>>)
                        EXCEPT !.pkg = NIL, !.syntax = FALSE]
          @@ "W2" :> [Function("m.obj", "m$thunk", "func()",
                               <<Call("v.W1", "()"), Return(<<>>)>>)
                        EXCEPT !.pkg = NIL, !.syntax = FALSE]
          @@ "m$bound" :> [Function("m.obj", "m$bound", "func()",
                                    <<Call("v.m", "()"), Return(<<>>)>>)
                             EXCEPT !.pkg = NIL, !.syntax = FALSE],
   val |-> [v \in {"v.F", "v.g", "v.m", "v.W1", "v.W2"} |->
              [VBase EXCEPT !.vk = "Function",
                            !.fn = CASE v = "v.F" -> "F" [] v = "v.g" -> "g"
                                     [] v = "v.m" -> "m.fn"
                                     [] v = "v.W1" -> "W1"
                                     [] v = "v.W2" -> "W2"]],
   fv |-> "F.obj" :> "F" @@ "g.obj" :> "g" @@ "m.obj" :> "m.fn",
   ms |-> NoEntry,
   defs |-> {"T.name", "U.name", "F.obj", "g.obj", "m.obj"},
   uses |-> {},
   members |-> {"T.name", "U.name", "F", "g"},
   initfns |-> <<"F", "g", "m.fn">>]

\* the packages of this family, in a sequence
RecParams ==
  LET B == <<FALSE, TRUE>>
      BF == SetToSeq(BodiesF)
      BG == SetToSeq(BodiesG)
      rs == <<Len(BF), Len(BG), 2>>
  IN [i \in 1..Product(rs) |->
        LET dg == Digits(i - 1, rs) IN
        [fam |-> "rec", bF |-> BF[dg[1]], bG |-> BG[dg[2]], xF |-> B[dg[3]]]]

-----------------------------------------------------------------------------
(* The packages analysed: pkg holds the tables of the package, pkg.is the  *)
(* parameters that name it.                                               *)

PkgTablesOf(c) ==
  CASE c.fam = "struct" -> StructPkg(c)
    [] c.fam = "iface" -> IfacePkg(c)
    [] c.fam = "const" -> ConstPkg(c)
    [] c.fam = "walk" -> WalkPkg(c)
    [] c.fam = "rec" -> RecPkg(c)

PkgParams == StructParams \o IfaceParams \o ConstParams \o WalkParams \o RecParams
Packages == {PkgTablesOf(PkgParams[i]) : i \in 1..Len(PkgParams)}

P == pkg

-----------------------------------------------------------------------------
(* Accessors of the package tables *)

IsType(x) == x \in DOMAIN P.ty
IsObject(x) == x \in DOMAIN P.ob
IsFn(x) == x \in DOMAIN P.fn
Ty(t) == P.ty[t]
Ob(o) == P.ob[o]
Fn(f) == P.fn[f]
Kind(t) == Ty(t).kind

IsFuncObj(x) == IsObject(x) /\ Ob(x).kind = "Func"

\* ssa.Program.FuncValue: the lowered function of a semantic function, nil
\* for an abstract (interface) method
FuncValue(o) == P.fv[o]

\* types.Type.Underlying
Underlying(t) == IF Kind(t) = "Named" THEN Ty(t).under ELSE t

\* lintdsl.Dereference: the element type of a (possibly named) pointer
Dereference(t) ==
  IF Kind(Underlying(t)) = "Pointer" THEN Ty(Underlying(t)).elem ELSE t

\* typeutil.Map keys types by types.Identical: identical types share a key
Key(t) == Ty(t).key

\* the key of an entity in Graph.Nodes (object identity) or Graph.TypeNodes
NodeKey(x) == IF IsType(x) THEN Key(x) ELSE x

\* an object whose package is set (not the universe) and is another package
Foreign(x) == IsObject(x) /\ Ob(x).pkg # NIL /\ Ob(x).pkg # ThisPkg

-----------------------------------------------------------------------------
(* func isIrrelevant *)

RECURSIVE isIrrelevant(_)
isIrrelevant(x) ==
  IF IsObject(x) THEN
    IF Ob(x).kind = "Var"
    THEN ~Ob(x).isField /\ isIrrelevant(Ob(x).type)
    ELSE FALSE
  ELSE IF IsType(x) THEN
    \E T \in {Dereference(x)} :
    CASE Kind(T) = "Array" -> isIrrelevant(Ty(T).elem)
      [] Kind(T) = "Slice" -> isIrrelevant(Ty(T).elem)
      [] Kind(T) = "Basic" -> TRUE
      [] Kind(T) = "Tuple" ->
           \A i \in 1..Len(Ty(T).vars) : isIrrelevant(Ob(Ty(T).vars[i]).type)
      [] Kind(T) = "Signature" ->
           /\ Ty(T).recv = NIL
           /\ \A i \in 1..Len(Ty(T).params) : isIrrelevant(Ty(T).params[i])
           /\ \A i \in 1..Len(Ty(T).results) : isIrrelevant(Ty(T).results[i])
      [] Kind(T) = "Interface" -> Len(Ty(T).methods) = 0
      [] OTHER -> FALSE
  ELSE FALSE

-----------------------------------------------------------------------------
(* The graph: Graph.node, Graph.nodeMaybe, Node.use, Graph.see, Graph.use *)

\* func NewGraph: only the Root node, no edge
\* typWalks and fnWalks are history: how many times Graph.typ went past its
\* early returns for a type, and Graph.instructions for a function
NewGraph ==
  [obj |-> (Root :> NIL), used |-> {}, seenTypes |-> NoEntry, seenFns |-> {},
   err |-> FALSE, typWalks |-> NoEntry, fnWalks |-> NoEntry]

\* one more walk of k
Count(walks, k) ==
  IF k \in DOMAIN walks THEN [walks EXCEPT ![k] = @ + 1]
  ELSE walks @@ (k :> 1)

Nodes(gr) == DOMAIN gr.obj

\* func (g *Graph) nodeMaybe
nodeMaybe(gr, x) == NodeKey(x) \in Nodes(gr)

\* func (g *Graph) node: the existing node, or a new one holding obj
node(gr, x) ==
  IF NodeKey(x) \in Nodes(gr) THEN gr
  ELSE [gr EXCEPT !.obj = @ @@ (NodeKey(x) :> x)]

\* func assert: a failed assertion panics; construction stops
Fail(gr) == [gr EXCEPT !.err = TRUE]

\* func (n *Node) use: n.used is a map from the used node to one reason
NodeUse(used, n, nd, reason) ==
  CHOOSE r \in {{e \in used : ~(e[1] = a /\ e[2] = b)}
                   \cup {<<a, b, reason>>} : a \in {n}, b \in {nd}} : TRUE

\* see without the test on the package of a types.Object
seeAnyPackage(gr, x) ==
  IF gr.err \/ isIrrelevant(x) THEN gr
  ELSE node(gr, x)

\* see without the test of isIrrelevant
seeIrrelevantToo(gr, x) ==
  IF gr.err THEN gr
  ELSE IF Foreign(x) THEN gr
  ELSE node(gr, x)

\* func (g *Graph) see
see(gr, x) ==
  IF gr.err \/ isIrrelevant(x) THEN gr
  ELSE IF Foreign(x) THEN gr
  ELSE node(gr, x)

\* func (g *Graph) use
use(gr, used, by, reason) ==
  IF gr.err \/ isIrrelevant(used) THEN gr
  ELSE IF IsFuncObj(used) /\ FuncValue(used) # NIL THEN Fail(gr)
  ELSE IF IsFuncObj(by) /\ FuncValue(by) # NIL THEN Fail(gr)
  ELSE IF Foreign(used) \/ Foreign(by) THEN gr
  ELSE IF ~nodeMaybe(gr, used) THEN Fail(gr)
  ELSE IF by = NIL
    THEN [gr EXCEPT !.used = NodeUse(@, Root, NodeKey(used), reason)]
  ELSE IF ~nodeMaybe(gr, by) THEN Fail(gr)
  ELSE [gr EXCEPT !.used = NodeUse(@, NodeKey(by), NodeKey(used), reason)]

\* func (g *Graph) seeAndUse
seeAndUse(gr, used, by, reason) ==
  CHOOSE r \in {use(g1, used, by, reason) : g1 \in {see(gr, used)}} : TRUE

-----------------------------------------------------------------------------
(* Helpers of the type walker *)

\* typeutil.MethodSetCache.MethodSet: the selections of a type's method set,
\* each with the method object and the index path through embedded fields
MethodSet(t) == IF t \in DOMAIN P.ms THEN P.ms[t] ELSE {}

\* func isNoCopyType
isNoCopyType(t) ==
  /\ Kind(Underlying(t)) = "Struct"
  /\ Len(Ty(Underlying(t)).fields) = 0
  /\ Kind(t) = "Named"
  /\ Len(Ty(t).methods) = 1
  /\ Ob(Ty(t).methods[1]).name = "Lock"
  /\ LET sig == Ty(Ob(Ty(t).methods[1]).type)
     IN Len(sig.params) = 0 /\ Len(sig.results) = 0

\* the closure hasExportedField of Graph.typ; sn is its map of visited
\* structs, shared by the whole recursion.  The result is <<found, sn>>.
RECURSIVE hasExportedField(_, _), hasExportedFieldFrom(_, _, _)
hasExportedField(T, sn) ==
  CHOOSE q \in
    {IF Kind(t) # "Struct" THEN <<FALSE, sn>>
     ELSE IF t \in sn THEN <<FALSE, sn>>
     ELSE hasExportedFieldFrom(t, 1, sn \cup {t}) :
     t \in {Underlying(Dereference(T))}} : TRUE

hasExportedFieldFrom(t, i, sn) ==
  IF i > Len(Ty(t).fields) THEN <<FALSE, sn>>
  ELSE LET field == Ty(t).fields[i] IN
    IF Ob(field).exported THEN <<TRUE, sn>>
    ELSE IF Ob(field).anonymous
      THEN CHOOSE q \in {IF r[1] THEN r
                          ELSE hasExportedFieldFrom(t, i + 1, r[2]) :
                          r \in {hasExportedField(Ob(field).type, sn)}} : TRUE
      ELSE hasExportedFieldFrom(t, i + 1, sn)

-----------------------------------------------------------------------------
(* Graph.typ, Graph.variable, Graph.signature, Graph.function and         *)
(* Graph.instructions.  The body of each is the sequence of the calls it  *)
(* makes, in the order of the code; Run makes the calls one after the     *)
(* other over the graph, so that the memo tables seenTypes and seenFns    *)
(* are read at the moment of each call.                                   *)

\* the calls a body makes
DoSee(x) == <<"see", x>>
DoUse(used, by, reason) == <<"use", used, by, reason>>
DoSeeAndUse(used, by, reason) == <<"seeAndUse", used, by, reason>>
CallTyp(t) == <<"typ", t>>
CallInstructions(fn) == <<"instructions", fn>>
DoFail == <<"fail">>

\* the concatenation of a sequence of bodies
RECURSIVE Concat(_)
Concat(ss) ==
  CHOOSE r \in {IF s = <<>> THEN <<>> ELSE Head(s) \o Concat(Tail(s)) :
                 s \in {ss}} : TRUE

\* func (g *Graph) variable
variable(v) ==
  <<DoSeeAndUse(Ob(v).type, v, "variable type"), CallTyp(Ob(v).type)>>

\* signature with use in the place of seeAndUse
signatureUseOnly(sig) ==
  (IF Ty(sig).recv # NIL
   THEN <<DoUse(Ty(sig).recv, sig, "receiver")>>
        \o variable(Ty(sig).recv)
   ELSE <<>>)
  \o Concat([i \in 1..Len(Ty(sig).params) |->
       <<DoUse(Ty(sig).params[i], sig, "function argument")>>
       \o variable(Ty(sig).params[i])])
  \o Concat([i \in 1..Len(Ty(sig).results) |->
       <<DoUse(Ty(sig).results[i], sig, "function result")>>
       \o variable(Ty(sig).results[i])])

\* func (g *Graph) signature
signature(sig) ==
  (IF Ty(sig).recv # NIL
   THEN <<DoSeeAndUse(Ty(sig).recv, sig, "receiver")>>
        \o variable(Ty(sig).recv)
   ELSE <<>>)
  \o Concat([i \in 1..Len(Ty(sig).params) |->
       <<DoSeeAndUse(Ty(sig).params[i], sig, "function argument")>>
       \o variable(Ty(sig).params[i])])
  \o Concat([i \in 1..Len(Ty(sig).results) |->
       <<DoSeeAndUse(Ty(sig).results[i], sig, "function result")>>
       \o variable(Ty(sig).results[i])])

\* func (g *Graph) function
RECURSIVE function(_)
function(fn) ==
  <<DoSeeAndUse(Fn(fn).sig, fn, "function signature")>>
  \o signature(Fn(fn).sig)
  \o <<CallInstructions(fn)>>
  \o Concat([i \in 1..Len(Fn(fn).anon) |->
       <<DoSeeAndUse(Fn(fn).anon[i], fn, "anonymous function")>>
       \o function(Fn(fn).anon[i])])

\* Graph.typ, case *types.Struct: the body of the loop for one field
typStruct(t, f) ==
  <<DoSee(f)>>
  \o (IF Ob(f).exported
        THEN <<DoUse(f, t, "exported struct field")>>
      ELSE IF isNoCopyType(Ob(f).type)
        THEN <<DoUse(f, t, "NoCopy sentinel")>>
      ELSE <<>>)
  \o (IF Ob(f).anonymous
         /\ \E sel \in MethodSet(Ob(f).type) : Ob(sel.obj).exported
      THEN <<DoUse(f, t, "extends exported method set")>> ELSE <<>>)
  \o (IF Ob(f).anonymous /\ hasExportedField(Ob(f).type, {})[1]
      THEN <<DoUse(f, t, "extends exported fields")>> ELSE <<>>)
  \o variable(f)

\* Graph.typ, case *types.Named: the body of the loop for one method
typNamedMethod(t, m) ==
  LET meth == FuncValue(m) IN
  IF meth = NIL THEN <<DoFail>>  \* meth.Object() on a nil *ssa.Function
  ELSE <<DoSee(meth)>>
       \o (IF Fn(meth).object # NIL /\ Ob(Fn(meth).object).exported
           THEN <<DoUse(meth, t, "exported method")>> ELSE <<>>)
       \o function(meth)

\* Graph.typ, case *types.Interface: the body of the loop for one method
typInterface(t, m) ==
  <<DoSeeAndUse(m, t, "interface method"),
    DoSeeAndUse(Ob(m).type, m, "signature")>>
  \o signature(Ob(m).type)

\* Graph.typ after its early returns: the switch over the kind of type
typSwitch(t) ==
  <<DoSee(t)>> \o
  CASE Kind(t) = "Struct" ->
         Concat([i \in 1..Len(Ty(t).fields) |-> typStruct(t, Ty(t).fields[i])])
    [] Kind(t) = "Basic" -> <<>>
    [] Kind(t) = "Named" ->
         <<DoSeeAndUse(Ty(t).under, t, "underlying type"),
           DoSeeAndUse(Ty(t).obj, t, "type name"),
           DoSeeAndUse(t, Ty(t).obj, "named type")>>
         \o Concat([i \in 1..Len(Ty(t).methods) |->
              typNamedMethod(t, Ty(t).methods[i])])
         \o <<CallTyp(Ty(t).under)>>
    [] Kind(t) \in {"Slice", "Array", "Pointer", "Chan"} ->
         <<DoSeeAndUse(Ty(t).elem, t, "element type"), CallTyp(Ty(t).elem)>>
    [] Kind(t) = "Map" ->
         <<DoSeeAndUse(Ty(t).elem, t, "element type"),
           DoSeeAndUse(Ty(t).mapkey, t, "key type"),
           CallTyp(Ty(t).elem), CallTyp(Ty(t).mapkey)>>
    [] Kind(t) = "Signature" -> signature(t)
    [] Kind(t) = "Interface" ->
         Concat([i \in 1..Len(Ty(t).methods) |->
           typInterface(t, Ty(t).methods[i])])
    [] Kind(t) = "Tuple" ->
         Concat([i \in 1..Len(Ty(t).vars) |->
           <<DoSeeAndUse(Ty(t).vars[i], t, "tuple element")>>
           \o variable(Ty(t).vars[i])])
    [] OTHER -> <<DoFail>>  \* panic("unreachable")

\* func (g *Graph) typ: the graph after its first lines and the calls that
\* follow them
typNoMemo(gr, t) ==
  IF Kind(t) = "Named" /\ Foreign(Ty(t).obj)
    THEN [g |-> gr, calls |-> <<>>]
  ELSE [g |-> [gr EXCEPT !.seenTypes = (Key(t) :> t) @@ @,
                         !.typWalks = Count(@, Key(t))],
        calls |-> IF isIrrelevant(t) THEN <<>> ELSE typSwitch(t)]

typ(gr, t) ==
  IF Key(t) \in DOMAIN gr.seenTypes THEN [g |-> gr, calls |-> <<>>]
  ELSE IF Kind(t) = "Named" /\ Foreign(Ty(t).obj)
    THEN [g |-> gr, calls |-> <<>>]
  ELSE [g |-> [gr EXCEPT !.seenTypes = @ @@ (Key(t) :> t),
                         !.typWalks = Count(@, Key(t))],
        calls |-> IF isIrrelevant(t) THEN <<>> ELSE typSwitch(t)]

Val(v) == P.val[v]

\* the ssa.Function v is a thunk or bound-method wrapper: its object's
\* canonical lowered function is another function
IsWrapper(v) == Fn(v).object # NIL /\ FuncValue(Fn(v).object) # v

\* the struct behind a (pointer to a) type, NIL when it is no struct
StructOf(t) ==
  IF Kind(Underlying(Dereference(t))) = "Struct"
  THEN Underlying(Dereference(t)) ELSE NIL

\* the struct S when t's underlying type is a pointer to S, else NIL
PointedStruct(t) ==
  IF Kind(Underlying(t)) = "Pointer"
     /\ Kind(Underlying(Ty(Underlying(t)).elem)) = "Struct"
  THEN Underlying(Ty(Underlying(t)).elem) ELSE NIL

IsUnsafePointer(t) == Kind(t) = "Basic" /\ Ty(t).unsafe

\* the closure useCall of case *ssa.Call; sn is its map of visited values.
\* The result is <<calls, sn>>.
RECURSIVE useCall(_, _, _), useCallEdges(_, _, _, _)
useCall(fn, v, sn) ==
  IF v \in sn THEN << <<>>, sn>>
  ELSE
    LET sn1 == sn \cup {v} IN
    CASE Val(v).vk = "Function" ->
           << <<DoSeeAndUse(Val(v).fn, fn, "function call")>>
              \o (IF IsWrapper(Val(v).fn)
                  THEN <<CallInstructions(Val(v).fn)>> ELSE <<>>),
              sn1>>
      [] Val(v).vk = "MakeClosure" -> useCall(fn, Val(v).inner, sn1)
      [] Val(v).vk = "Phi" -> useCallEdges(fn, Val(v).edges, 1, sn1)
      [] OTHER -> << <<>>, sn1>>

useCallEdges(fn, es, i, sn) ==
  IF i > Len(es) THEN << <<>>, sn>>
  ELSE CHOOSE q \in
         {CHOOSE p \in {<<r[1] \o s[1], s[2]>> :
                         s \in {useCallEdges(fn, es, i + 1, r[2])}} : TRUE :
          r \in {useCall(fn, es[i], sn)}} : TRUE

\* the closure handleReturn of case *ssa.Return
RECURSIVE handleReturn(_, _, _), handleReturnEdges(_, _, _, _)
handleReturn(fn, v, sn) ==
  IF v \in sn THEN << <<>>, sn>>
  ELSE
    LET sn1 == sn \cup {v} IN
    CASE Val(v).vk = "Function" ->
           << <<DoSeeAndUse(Val(v).fn, fn, "returning function")>>, sn1>>
      [] Val(v).vk = "Phi" -> handleReturnEdges(fn, Val(v).edges, 1, sn1)
      [] OTHER -> << <<>>, sn1>>

handleReturnEdges(fn, es, i, sn) ==
  IF i > Len(es) THEN << <<>>, sn>>
  ELSE CHOOSE q \in
         {CHOOSE p \in {<<r[1] \o s[1], s[2]>> :
                         s \in {handleReturnEdges(fn, es, i + 1, r[2])}} : TRUE :
          r \in {handleReturn(fn, es[i], sn)}} : TRUE

\* a faulty case *ssa.ChangeType: the edges go one way only
changeTypeFieldsOneWay(s1, s2) ==
  IF Len(Ty(s1).fields) # Len(Ty(s2).fields) THEN <<DoFail>>
  ELSE Concat([i \in 1..Len(Ty(s1).fields) |->
         LET f1 == Ty(s1).fields[i]
             f2 == Ty(s2).fields[i]
         IN <<DoSee(f1), DoSee(f2),
              DoSeeAndUse(f1, f2, "struct conversion")>>])

\* case *ssa.ChangeType: the fields of two structs use each other
changeTypeFields(s1, s2) ==
  IF Len(Ty(s1).fields) # Len(Ty(s2).fields) THEN <<DoFail>>
  ELSE Concat([i \in 1..Len(Ty(s1).fields) |->
         LET f1 == Ty(s1).fields[i]
             f2 == Ty(s2).fields[i]
         IN <<DoSee(f1), DoSee(f2),
              DoSeeAndUse(f1, f2, "struct conversion"),
              DoSeeAndUse(f2, f1, "struct conversion")>>])

\* a faulty case *ssa.Convert: the fields get nodes but no edge
unsafeFieldsSeeOnly(fn, st) ==
  [i \in 1..Len(Ty(st).fields) |-> DoSee(Ty(st).fields[i])]

\* case *ssa.Convert: every field of the struct is used by the function
unsafeFields(fn, st) ==
  [i \in 1..Len(Ty(st).fields) |->
     DoSeeAndUse(Ty(st).fields[i], fn, "unsafe conversion")]

\* the body of the loop of Graph.instructions for one instruction
instr(fn, in) ==
  (IF in.typ # NIL /\ in.op # "Range"
   THEN <<DoSeeAndUse(in.typ, fn, "instruction"), CallTyp(in.typ)>>
   ELSE <<>>)
  \o
  CASE in.op = "Field" ->
         <<DoSeeAndUse(Ty(Underlying(in.x)).fields[in.fld], fn,
                       "field access")>>
    [] in.op = "FieldAddr" ->
         <<DoSeeAndUse(Ty(Underlying(Dereference(in.x))).fields[in.fld], fn,
                       "field access")>>
    [] in.op = "Call" -> useCall(fn, in.val, {})[1]
    [] in.op = "Invoke" -> <<DoSeeAndUse(in.meth, fn, "interface call")>>
    [] in.op = "Return" -> handleReturnEdges(fn, in.vals, 1, {})[1]
    [] in.op = "ChangeType" ->
         <<DoSeeAndUse(in.typ, fn, "conversion"), CallTyp(in.typ)>>
         \o (IF StructOf(in.typ) # NIL /\ StructOf(in.x) # NIL
             THEN changeTypeFields(StructOf(in.typ), StructOf(in.x))
             ELSE <<>>)
    [] in.op = "Convert" ->
         (IF IsUnsafePointer(in.typ) /\ PointedStruct(in.x) # NIL
          THEN unsafeFields(fn, PointedStruct(in.x)) ELSE <<>>)
         \o (IF IsUnsafePointer(in.x) /\ PointedStruct(in.typ) # NIL
             THEN unsafeFields(fn, PointedStruct(in.typ)) ELSE <<>>)
    [] in.op = "TypeAssert" ->
         <<DoSeeAndUse(in.x, fn, "type assert"), CallTyp(in.x)>>
    [] in.op = "MakeClosure" ->
         <<DoSeeAndUse(in.fn, fn, "make closure")>>
         \o (IF IsWrapper(in.fn) THEN <<CallInstructions(in.fn)>> ELSE <<>>)
    [] OTHER -> <<>>

\* func (g *Graph) instructions: the graph after its first lines and the
\* calls of its loop
instructions(gr, fn) ==
  IF fn \in gr.seenFns THEN [g |-> gr, calls |-> <<>>]
  ELSE [g |-> [gr EXCEPT !.seenFns = @ \cup {fn},
                         !.fnWalks = Count(@, fn)],
        calls |-> Concat([i \in 1..Len(Fn(fn).instrs) |->
                    instr(fn, Fn(fn).instrs[i])])]

\* a bound on the number of calls made for one element of a loop of
\* Graph.entry: Run makes at most 2^RunDepth calls
RunDepth == 10

\* the next call of the sequence is made; a failed assertion ends the run
Step(st) ==
  IF st.calls = <<>> THEN st
  ELSE
    LET c == Head(st.calls)
        rest == Tail(st.calls)
    IN
    IF st.g.err THEN [g |-> st.g, calls |-> <<>>]
    ELSE CASE c[1] = "see" -> [g |-> see(st.g, c[2]), calls |-> rest]
           [] c[1] = "use" ->
                [g |-> use(st.g, c[2], c[3], c[4]), calls |-> rest]
           [] c[1] = "seeAndUse" ->
                [g |-> seeAndUse(st.g, c[2], c[3], c[4]), calls |-> rest]
           [] c[1] = "typ" ->
                CHOOSE s \in {[g |-> r.g, calls |-> r.calls \o rest] :
                               r \in {typ(st.g, c[2])}} : TRUE
           [] c[1] = "instructions" ->
                CHOOSE s \in {[g |-> r.g, calls |-> r.calls \o rest] :
                               r \in {instructions(st.g, c[2])}} : TRUE
           [] c[1] = "fail" -> [g |-> Fail(st.g), calls |-> <<>>]

\* up to 2^k calls are made
RECURSIVE RunFor(_, _)
RunFor(st, k) ==
  IF st.calls = <<>> THEN st
  ELSE IF k = 0 THEN Step(st)
  ELSE CHOOSE r \in {RunFor(m, k - 1) : m \in {RunFor(st, k - 1)}} : TRUE

\* the calls are made over the graph gr; none is left when the bound is
\* not met
Run(gr, calls) ==
  CHOOSE r \in {RunFor(st, RunDepth) : st \in {[g |-> gr, calls |-> calls]}} :
    TRUE

-----------------------------------------------------------------------------
(* Graph.entry, loop by loop *)

\* the closure surroundingFunc of Graph.entry: the function whose scope
\* encloses the declaration, nil for a declaration at package level
surroundingFunc(o) == Ob(o).scopeFn

\* the body of the loop over tinfo.Defs
entryDef(o) ==
  CASE Ob(o).kind = "TypeName" -> <<DoSee(o), CallTyp(Ob(o).type)>>
    [] Ob(o).kind = "Const" ->
         <<DoSee(o)>>
         \o (IF surroundingFunc(o) = NIL /\ Ob(o).exported
             THEN <<DoUse(o, NIL, "exported constant")>> ELSE <<>>)
         \o <<CallTyp(Ob(o).type),
              DoSeeAndUse(Ob(o).type, o, "constant type")>>
    [] OTHER -> <<>>

\* tinfo.Uses[ident]: the object that an identifier refers to
UsesOf(ident) == (CHOOSE u \in P.uses : u[1] = ident)[2]

\* the body of the loop over Program.InitialFunctions; ast.Inspect finds
\* every identifier of the function's syntax that resolves to a constant
entryInitialFunction(fn) ==
  IF Fn(fn).pkg # ThisPkg THEN <<>>
  ELSE <<DoSee(fn)>>
       \o (IF Fn(fn).syntax
           THEN Concat([i \in 1..Len(Fn(fn).uses) |->
                  LET obj == UsesOf(Fn(fn).uses[i]) IN
                  IF Ob(obj).kind = "Const"
                  THEN <<DoSeeAndUse(obj, fn, "used constant")>>
                  ELSE <<>>])
           ELSE <<>>)

\* the body of the loop over tinfo.Uses; u is <<identifier, object>>.
\* handledConsts is never written to, so no identifier is skipped.
entryUse(u) ==
  IF Ob(u[2]).kind # "Const" THEN <<>>
  ELSE <<DoSeeAndUse(u[2], NIL, "used constant")>>

\* a faulty loop body: exported functions and types are not used by Root
entryMemberUnrooted(m) ==
  IF IsFn(m) THEN <<DoSee(m)>> \o function(m)
  ELSE IF IsObject(m) /\ Ob(m).kind = "TypeName"
    THEN <<DoSee(m), CallTyp(Ob(m).type)>>
  ELSE <<>>

\* the body of the loop over pkg.Members
entryMember(m) ==
  IF IsFn(m) THEN
    <<DoSee(m)>>
    \o (IF Fn(m).name = "init"
        THEN <<DoUse(m, NIL, "init function")>> ELSE <<>>)
    \o (IF Fn(m).object # NIL /\ Ob(Fn(m).object).exported
        THEN <<DoUse(m, NIL, "exported top-level function")>> ELSE <<>>)
    \o (IF Fn(m).name = "main" /\ P.name = "main"
        THEN <<DoUse(m, NIL, "main function")>> ELSE <<>>)
    \o function(m)
  ELSE IF IsObject(m) /\ Ob(m).kind = "TypeName" THEN
    <<DoSee(m)>>
    \o (IF Ob(m).exported
        THEN <<DoUse(m, NIL, "exported top-level type")>> ELSE <<>>)
    \o <<CallTyp(Ob(m).type)>>
  ELSE <<>>   \* *ssa.NamedConst, *ssa.Global

Range(f) == {f[x] : x \in DOMAIN f}

\* the partition of seenTypes at the end of Graph.entry
Ifaces(gr) == {t \in Range(gr.seenTypes) : Kind(t) = "Interface"}
NotIfaces(gr) ==
  {t \in Range(gr.seenTypes) :
     Kind(t) # "Interface" /\ Kind(Underlying(t)) # "Interface"}

\* the selection ms.Lookup(pkg, name) of a method set
Lookup(ms, name) == CHOOSE sel \in ms : sel.name = name

\* Graph.implements: t's method set has every method of the interface
implements(t, iface) ==
  \A i \in 1..Len(Ty(iface).methods) :
     \E sel \in MethodSet(t) : sel.name = Ob(Ty(iface).methods[i]).name

\* a faulty loop: the embedded fields on the path are left alone
helpsImplementNothing(base, path, i) == <<>>

\* the loop over path[:len(path)-1]: the embedded fields that lead to the
\* implementing method
RECURSIVE helpsImplement(_, _, _)
helpsImplement(base, path, i) ==
  IF i > Len(path) - 1 THEN <<>>
  ELSE
    LET next == Ty(base).fields[path[i]] IN
    CHOOSE r \in {<<DoSeeAndUse(next, base, "helps implement")>>
                   \o helpsImplement(b, path, i + 1) :
                   b \in {StructOf(Ob(next).type)}} : TRUE

\* a faulty loop body: the interface does not use the implementing method
implementsMethodPathOnly(t, iface, m) ==
  LET sel == Lookup(MethodSet(t), Ob(m).name) IN
  IF Len(sel.path) > 1
  THEN IF StructOf(t) = NIL THEN <<DoFail>>
       ELSE helpsImplement(StructOf(t), sel.path, 1)
  ELSE <<>>

\* the body of the loop over the methods of iface, for a type t that
\* implements it
implementsMethod(t, iface, m) ==
  LET sel == Lookup(MethodSet(t), Ob(m).name) IN
  (IF Len(sel.path) > 1
   THEN IF StructOf(t) = NIL THEN <<DoFail>>
        ELSE helpsImplement(StructOf(t), sel.path, 1)
   ELSE <<>>)
  \o (IF FuncValue(sel.obj) # NIL
      THEN <<DoSeeAndUse(FuncValue(sel.obj), iface, "implements")>>
      ELSE <<DoSeeAndUse(sel.obj, iface, "implements")>>)

\* the loop over notIfaces for one interface
entryImplements(gr, iface) ==
  CHOOSE r \in
    {Concat([j \in 1..Len(ts) |->
       IF implements(ts[j], iface)
       THEN Concat([i \in 1..Len(Ty(iface).methods) |->
              implementsMethod(ts[j], iface, Ty(iface).methods[i])])
       ELSE <<>>]) : ts \in {SetToSeq(NotIfaces(gr))}} : TRUE

-----------------------------------------------------------------------------
(* Checker.Check: colouring, quieting, reporting *)

\* the nodes that n uses: the keys of n.used
Used(gr, n) == {e[2] : e \in {d \in gr.used : d[1] = n}}

\* a faulty quieten: it does not return early on a seen node
quietenSeenToo(gr, sn, n) ==
  LET o == gr.obj[n] IN
  IF IsObject(o) /\ Ob(o).kind = "Var" THEN
    IF ~Ob(o).isField THEN {n} ELSE {}
  ELSE IF IsType(o) /\ Kind(o) = "Named" THEN
    {FuncValue(Ty(o).methods[i]) : i \in 1..Len(Ty(o).methods)} \cap Nodes(gr)
  ELSE IF IsType(o) /\ Kind(o) = "Struct" THEN
    {Ty(o).fields[i] : i \in 1..Len(Ty(o).fields)} \cap Nodes(gr)
  ELSE {}

\* the closure quieten of Checker.Check, for one node: the nodes it quiets
quieten(gr, sn, n) ==
  LET o == gr.obj[n] IN
  IF n \in sn THEN {}
  ELSE IF IsObject(o) /\ Ob(o).kind = "Var" THEN
    IF ~Ob(o).isField THEN {n} ELSE {}
  ELSE IF IsType(o) /\ Kind(o) = "Named" THEN
    {FuncValue(Ty(o).methods[i]) : i \in 1..Len(Ty(o).methods)} \cap Nodes(gr)
  ELSE IF IsType(o) /\ Kind(o) = "Struct" THEN
    {Ty(o).fields[i] : i \in 1..Len(Ty(o).fields)} \cap Nodes(gr)
  ELSE {}

\* a faulty report: the package of the object is not compared
reportAnyPackage(gr, sn, qt, n) ==
  LET o == gr.obj[n] IN
  IF n \in sn \/ n \in qt THEN {}
  ELSE IF IsObject(o) THEN {<<n, o>>}
  ELSE IF IsFn(o) THEN
    IF Fn(o).object # NIL THEN {<<n, Fn(o).object>>} ELSE {}
  ELSE {}

\* the closure report of Checker.Check, for one node: the records appended
report(gr, sn, qt, n) ==
  LET o == gr.obj[n] IN
  IF n \in sn \/ n \in qt THEN {}
  ELSE IF IsObject(o) THEN
    IF Ob(o).pkg = ThisPkg THEN {<<n, o>>} ELSE {}
  ELSE IF IsFn(o) THEN
    IF Fn(o).object # NIL /\ Ob(Fn(o).object).pkg = ThisPkg
    THEN {<<n, Fn(o).object>>} ELSE {}
  ELSE {}

\* the keys of Graph.TypeNodes and of Graph.Nodes
TypeNodes(gr) == {n \in Nodes(gr) : IsType(n)}
ObjNodes(gr) == Nodes(gr) \ TypeNodes(gr)

-----------------------------------------------------------------------------
(* The steps of Checker.Check for one package *)

\* where Check continues after a loop of Graph.entry: the next loop that
\* has something to visit
RECURSIVE Begin(_, _)
Begin(p, gr) ==
  IF gr.err THEN <<"panic", {}>>
  ELSE CASE p = "defs" ->
              IF P.defs = {} THEN <<"consts", {}>> ELSE <<"defs", P.defs>>
         [] p = "consts" -> <<"consts", {}>>
         [] p = "uses" ->
              IF P.uses = {} THEN Begin("members", gr)
              ELSE <<"uses", P.uses>>
         [] p = "members" ->
              IF P.members = {} THEN Begin("implements", gr)
              ELSE <<"members", P.members>>
         [] p = "implements" ->
              IF Ifaces(gr) = {} THEN <<"color", {}>>
              ELSE <<"implements", Ifaces(gr)>>

\* one iteration of a loop of Graph.entry ends: stay or go to the next loop.
\* While the loop goes on, the elements left are known before the body runs.
Continue(p, nxt, gr, rest) ==
  IF gr.err THEN <<"panic", rest>>
  ELSE IF rest # {} THEN <<p, rest>> ELSE Begin(nxt, gr)

\* for _, obj := range tinfo.Defs (a map: any order)
EntryDefs ==
  /\ pc = "defs"
  /\ \E o \in todo :
       /\ todo \ {o} # {} => todo' = todo \ {o}
       /\ \E r \in {Run(g, entryDef(o))} :
            \E c \in {Continue("defs", "consts", r.g, todo \ {o})} :
              r.calls = <<>> /\ g' = r.g /\ pc' = c[1] /\ todo' = c[2]
  /\ UNCHANGED <<pkg, seen, stack, quiet, out>>

\* for _, fn := range g.job.Program.InitialFunctions (a slice)
EntryConsts ==
  /\ pc = "consts"
  /\ \E r \in {Run(g, Concat([i \in 1..Len(P.initfns) |->
                               entryInitialFunction(P.initfns[i])]))} :
       \E c \in {Begin("uses", r.g)} :
         r.calls = <<>> /\ g' = r.g /\ pc' = c[1] /\ todo' = c[2]
  /\ UNCHANGED <<pkg, seen, stack, quiet, out>>

\* for ident, obj := range tinfo.Uses (a map: any order)
EntryUses ==
  /\ pc = "uses"
  /\ \E u \in todo :
       /\ todo \ {u} # {} => todo' = todo \ {u}
       /\ \E r \in {Run(g, entryUse(u))} :
            \E c \in {Continue("uses", "members", r.g, todo \ {u})} :
              r.calls = <<>> /\ g' = r.g /\ pc' = c[1] /\ todo' = c[2]
  /\ UNCHANGED <<pkg, seen, stack, quiet, out>>

\* for _, m := range g.pkg.Members (a map: any order)
EntryMembers ==
  /\ pc = "members"
  /\ \E m \in todo :
       /\ todo \ {m} # {} => todo' = todo \ {m}
       /\ \E r \in {Run(g, entryMember(m))} :
            \E c \in {Continue("members", "implements", r.g, todo \ {m})} :
              r.calls = <<>> /\ g' = r.g /\ pc' = c[1] /\ todo' = c[2]
  /\ UNCHANGED <<pkg, seen, stack, quiet, out>>

\* for _, iface := range ifaces { for _, t := range notIfaces { ... } }
EntryImplements ==
  /\ pc = "implements"
  /\ \E iface \in todo :
       /\ todo' = todo \ {iface}
       /\ \E r \in {Run(g, entryImplements(g, iface))} :
            /\ r.calls = <<>>
            /\ g' = r.g
            /\ pc' = IF r.g.err THEN "panic"
                     ELSE IF todo \ {iface} # {} THEN "implements"
                     ELSE "color"
  /\ UNCHANGED <<pkg, seen, stack, quiet, out>>

\* graph.color(graph.Root): the first call; a frame of the stack is the
\* node and the part of node.used the loop has still to visit
ColorRoot ==
  /\ pc = "color" /\ stack = <<>> /\ Root \notin seen
  /\ seen' = seen \cup {Root}
  /\ stack' = << <<Root, Used(g, Root)>> >>
  /\ UNCHANGED <<pkg, pc, g, todo, quiet, out>>

\* a faulty color: the node is marked but its own edges are not followed
ColorCallShallow ==
  /\ pc = "color" /\ stack # <<>>
  /\ LET top == stack[Len(stack)] IN
     \E other \in top[2] :
       /\ seen' = seen \cup {other}
       /\ stack' = [stack EXCEPT ![Len(stack)] = <<top[1], top[2] \ {other}>>]
  /\ UNCHANGED <<pkg, pc, g, todo, quiet, out>>

\* for other := range root.used { g.color(other) }: one call
ColorCall ==
  /\ pc = "color" /\ stack # <<>>
  /\ LET top == stack[Len(stack)] IN
     \E other \in top[2] :
       LET popped == [stack EXCEPT ![Len(stack)] = <<top[1], top[2] \ {other}>>]
       IN IF other \in seen
          THEN seen' = seen /\ stack' = popped
          ELSE /\ seen' = seen \cup {other}
               /\ stack' = Append(popped, <<other, Used(g, other)>>)
  /\ UNCHANGED <<pkg, pc, g, todo, quiet, out>>

\* the loop of a call of color is over: return to the caller
ColorReturn ==
  /\ pc = "color" /\ stack # <<>>
  /\ stack[Len(stack)][2] = {}
  /\ stack' = SubSeq(stack, 1, Len(stack) - 1)
  /\ pc' = IF Len(stack) = 1 THEN "quieten" ELSE "color"
  /\ UNCHANGED <<pkg, g, todo, seen, quiet, out>>

\* for _, node := range graph.Nodes { quieten(node) }
QuietenNodes ==
  /\ pc = "quieten"
  /\ quiet' = quiet \cup UNION {quieten(g, seen, n) : n \in ObjNodes(g)}
  /\ pc' = "quietenTypes"
  /\ UNCHANGED <<pkg, g, todo, seen, stack, out>>

\* graph.TypeNodes.Iterate(quieten)
QuietenTypeNodes ==
  /\ pc = "quietenTypes"
  /\ quiet' = quiet \cup UNION {quieten(g, seen, n) : n \in TypeNodes(g)}
  /\ pc' = "report"
  /\ UNCHANGED <<pkg, g, todo, seen, stack, out>>

\* for _, node := range graph.Nodes { report(node) }
ReportNodes ==
  /\ pc = "report"
  /\ out' = out \cup UNION {report(g, seen, quiet, n) : n \in ObjNodes(g)}
  /\ pc' = "reportTypes"
  /\ UNCHANGED <<pkg, g, todo, seen, stack, quiet>>

\* graph.TypeNodes.Iterate(report)
ReportTypeNodes ==
  /\ pc = "reportTypes"
  /\ out' = out \cup UNION {report(g, seen, quiet, n) : n \in TypeNodes(g)}
  /\ pc' = "done"
  /\ UNCHANGED <<pkg, g, todo, seen, stack, quiet>>

Next ==
  \/ EntryDefs \/ EntryConsts \/ EntryUses \/ EntryMembers \/ EntryImplements
  \/ ColorRoot \/ ColorCall \/ ColorReturn
  \/ QuietenNodes \/ QuietenTypeNodes \/ ReportNodes \/ ReportTypeNodes

-----------------------------------------------------------------------------
(* The specification *)

Init ==
  /\ pkg \in Packages
  /\ g = NewGraph
  /\ pc = Begin("defs", NewGraph)[1]
  /\ todo = Begin("defs", NewGraph)[2]
  /\ seen = {}
  /\ stack = <<>>
  /\ quiet = {}
  /\ out = {}

Spec == Init /\ [][Next]_vars

\* Check is one sequential computation: while a step is possible, one is
\* taken
FairSpec == Spec /\ WF_vars(Next)

-----------------------------------------------------------------------------
(* Properties *)

\* color(Root) has returned
Colored == pc \in {"quieten", "quietenTypes", "report", "reportTypes", "done"}
\* both quieting passes are over
Quieted == pc \in {"report", "reportTypes", "done"}
\* Check has returned
Done == pc = "done"

\* the nodes reachable from the nodes S along the recorded edges
RECURSIVE ReachFrom(_, _)
ReachFrom(gr, S) ==
  LET N == S \cup {e[2] : e \in {d \in gr.used : d[1] \in S}}
  IN IF N = S THEN S ELSE ReachFrom(gr, N)

Reachable(gr) == ReachFrom(gr, {Root})

\* C1: no node outside the set reachable from Root along the recorded edges
\* is ever marked seen, and once color(Root) has returned the seen nodes are
\* exactly Root and the nodes reachable from it.
C1_SeenIffReachable ==
  LET R == Reachable(g)
  IN /\ seen \subseteq R
     /\ Colored => seen = R

\* colouring is over on a graph with a cycle among the seen nodes and with
\* a node that is not reachable
C1_Witness ==
  /\ Colored
  /\ Nodes(g) \ seen # {}
  /\ \E a \in seen \ {Root} : \E b \in Used(g, a) : a \in Used(g, b)

\* the exported top-level functions, the objects of the exported named
\* types and the exported top-level constants that the package declares
ExportedFunctions ==
  {m \in P.members :
     IsFn(m) /\ Fn(m).object # NIL /\ Ob(Fn(m).object).exported}
ExportedTypeNames ==
  {m \in P.members : IsObject(m) /\ Ob(m).kind = "TypeName" /\ Ob(m).exported}
ExportedConstants ==
  {o \in P.defs :
     Ob(o).kind = "Const" /\ Ob(o).exported /\ surroundingFunc(o) = NIL}

\* C2: after colouring, every exported top-level function, every exported
\* named type (its type name and the type) and every exported top-level
\* constant of the package is a seen node, and no record of the result
\* names one of them.
C2_ExportedSeen ==
  /\ Colored =>
       /\ ExportedFunctions \cup ExportedTypeNames \cup ExportedConstants
            \subseteq seen
       /\ \A o \in ExportedTypeNames : NodeKey(Ob(o).type) \in seen
  /\ \A r \in out :
       /\ r[2] \notin ExportedTypeNames \cup ExportedConstants
       /\ \A m \in ExportedFunctions : r[2] # Fn(m).object

\* Check has returned for a package with an exported function, an exported
\* type and an exported constant, and it reports something else
C2_Witness ==
  /\ Done
  /\ ExportedFunctions # {} /\ ExportedTypeNames # {} /\ ExportedConstants # {}
  /\ out # {}

\* C3: every record of the result names an object of the analysed package.
C3_ReportedInPackage == \A r \in out : Ob(r[2]).pkg = ThisPkg

\* Check has returned something although the graph holds the node of a
\* function of another package that is neither seen nor quiet
C3_Witness ==
  /\ Done
  /\ out # {}
  /\ \E n \in Nodes(g) \ (seen \cup quiet) : IsFn(n) /\ Fn(n).pkg = OtherPkg

\* the struct or named type of the node p has the node n as a field or as
\* the function of a method
IsParentOf(gr, p, n) ==
  LET o == gr.obj[p] IN
  /\ IsType(o)
  /\ \/ Kind(o) = "Struct" /\ \E i \in 1..Len(Ty(o).fields) : Ty(o).fields[i] = n
     \/ /\ Kind(o) = "Named"
        /\ \E i \in 1..Len(Ty(o).methods) : FuncValue(Ty(o).methods[i]) = n

\* C4, as the code has it: after the quieting passes every quiet node is an
\* unseen variable that is no field, or a field or method of a struct or
\* named type whose node is unseen; the field or method may itself be seen.
C4_QuietUnderUnseen ==
  Quieted =>
    \A n \in quiet :
      \/ n \notin seen /\ IsObject(n) /\ Ob(n).kind = "Var" /\ ~Ob(n).isField
      \/ \E p \in Nodes(g) \ seen : IsParentOf(g, p, n)

\* the quieting passes are over; a seen node is quiet, and so is an unseen one
C4_Witness == Quieted /\ quiet \cap seen # {} /\ quiet \ seen # {}

\* C4, as the claim has it: after the quieting passes every quiet node is
\* unseen.
C4_QuietUnseen == Quieted => quiet \cap seen = {}

\* the pairs of a walked type that is no interface and a walked interface
\* that the type implements
ImplementingPairs(gr) ==
  {pr \in NotIfaces(gr) \X Ifaces(gr) : implements(pr[1], pr[2])}

\* what the method set of the type t selects for the method m: the lowered
\* function, or the abstract method itself
Selected(t, m) ==
  LET sel == Lookup(MethodSet(t), Ob(m).name) IN
  IF FuncValue(sel.obj) # NIL THEN FuncValue(sel.obj) ELSE sel.obj

\* both nodes of the pair are seen
BothSeen(pr) == NodeKey(pr[1]) \in seen /\ NodeKey(pr[2]) \in seen

\* C5, as the code has it: after colouring, when a walked non-interface
\* type and a walked interface it implements are both seen, what the type's
\* method set selects for each method of the interface is seen, unless it is
\* an abstract method declared in another package.
C5_SelectedInPackageSeen ==
  Colored =>
    \A pr \in ImplementingPairs(g) :
      BothSeen(pr) =>
        \A i \in 1..Len(Ty(pr[2]).methods) :
          LET x == Selected(pr[1], Ty(pr[2]).methods[i])
          IN Foreign(x) \/ NodeKey(x) \in seen

\* colouring is over; a seen type implements a seen interface with an
\* unexported method of the package, which is seen
C5_Witness ==
  /\ Colored
  /\ \E pr \in ImplementingPairs(g) :
       /\ BothSeen(pr)
       /\ \E i \in 1..Len(Ty(pr[2]).methods) :
            LET x == Selected(pr[1], Ty(pr[2]).methods[i])
            IN IsFn(x) /\ Fn(x).pkg = ThisPkg /\ ~Ob(Fn(x).object).exported
               /\ x \in seen

\* C5, as the claim has it: what the type's method set selects for each
\* method of the interface is seen.
C5_SelectedSeen ==
  Colored =>
    \A pr \in ImplementingPairs(g) :
      BothSeen(pr) =>
        \A i \in 1..Len(Ty(pr[2]).methods) :
          NodeKey(Selected(pr[1], Ty(pr[2]).methods[i])) \in seen

\* the embedded fields along an index path whose last index is the
\* method's, each as <<struct of the implementing type, enclosing struct,
\* field>>
RECURSIVE PathFields(_, _, _, _)
PathFields(top, base, path, i) ==
  IF i >= Len(path) THEN {}
  ELSE LET f == Ty(base).fields[path[i]]
       IN {<<top, base, f>>}
          \cup PathFields(top, StructOf(Ob(f).type), path, i + 1)

\* the intermediate embedded fields on the paths to the methods by which
\* the types of the pairs implement
Intermediate(gr) ==
  UNION {UNION {PathFields(StructOf(pr[1]), StructOf(pr[1]),
                           Lookup(MethodSet(pr[1]),
                                  Ob(Ty(pr[2]).methods[i]).name).path, 1) :
                  i \in 1..Len(Ty(pr[2]).methods)} :
           pr \in {q \in ImplementingPairs(gr) : StructOf(q[1]) # NIL}}

\* the graph is finished
EntryOver == pc = "color" \/ Colored

\* C6, as the code has it: on the path of embedded fields by which a type
\* with struct S implements a walked interface, each intermediate field
\* that is declared in the package is used by its enclosing struct with
\* reason "helps implement", and is seen after colouring when S is.
C6_PathFieldsInPackage ==
  EntryOver =>
    \A tbf \in Intermediate(g) :
      ~Foreign(tbf[3]) =>
        /\ <<Key(tbf[2]), tbf[3], "helps implement">> \in g.used
        /\ Colored /\ Key(tbf[1]) \in seen => tbf[3] \in seen

\* colouring is over; a seen struct reaches the implementing method through
\* two intermediate fields of the package, the second in another struct,
\* and both are seen
C6_Witness ==
  /\ Colored
  /\ \E tbf \in Intermediate(g), tcf \in Intermediate(g) :
       /\ tbf[1] = tcf[1] /\ tbf[1] = tbf[2] /\ tcf[2] # tcf[1]
       /\ ~Foreign(tbf[3]) /\ ~Foreign(tcf[3])
       /\ Key(tbf[1]) \in seen /\ tbf[3] \in seen /\ tcf[3] \in seen

\* C6, as the claim has it: every intermediate field is used by its
\* enclosing struct with reason "helps implement", and is seen when S is.
C6_PathFields ==
  EntryOver =>
    \A tbf \in Intermediate(g) :
      /\ <<Key(tbf[2]), tbf[3], "helps implement">> \in g.used
      /\ Colored /\ Key(tbf[1]) \in seen => tbf[3] \in seen

\* the conversions between two structs of equal field count in the walked
\* functions: the pairs <<target struct, source struct>>
StructConversions(gr) ==
  {<<StructOf(in.typ), StructOf(in.x)>> :
     in \in {j \in UNION {Range(Fn(fn).instrs) : fn \in gr.seenFns} :
               /\ j.op = "ChangeType"
               /\ StructOf(j.typ) # NIL /\ StructOf(j.x) # NIL
               /\ Len(Ty(StructOf(j.typ)).fields)
                    = Len(Ty(StructOf(j.x)).fields)}}

\* C7: after colouring, for a conversion between two structs of equal field
\* count in a walked function, the i-th field of one struct is seen if and
\* only if the i-th field of the other is.
C7_ConvertedFieldsAgree ==
  Colored =>
    \A cv \in StructConversions(g) :
      \A i \in 1..Len(Ty(cv[1]).fields) :
        Ty(cv[1]).fields[i] \in seen <=> Ty(cv[2]).fields[i] \in seen

\* colouring is over; an unexported field is seen and so is the field it is
\* converted to, of a struct that another declaration has
C7_Witness ==
  /\ Colored
  /\ \E cv \in StructConversions(g) :
       \E i \in 1..Len(Ty(cv[1]).fields) :
         /\ Ty(cv[1]).fields[i] # Ty(cv[2]).fields[i]
         /\ ~Ob(Ty(cv[1]).fields[i]).exported
         /\ Ty(cv[1]).fields[i] \in seen /\ Ty(cv[2]).fields[i] \in seen

\* the structs whose pointer a seen function converts to or from
\* unsafe.Pointer
UnsafeStructs ==
  {PointedStruct(in.x) :
     in \in {j \in UNION {Range(Fn(fn).instrs) : fn \in seen \cap DOMAIN P.fn} :
               /\ j.op = "Convert" /\ IsUnsafePointer(j.typ)
               /\ PointedStruct(j.x) # NIL}}
  \cup
  {PointedStruct(in.typ) :
     in \in {j \in UNION {Range(Fn(fn).instrs) : fn \in seen \cap DOMAIN P.fn} :
               /\ j.op = "Convert" /\ IsUnsafePointer(j.x)
               /\ PointedStruct(j.typ) # NIL}}

\* C8: after colouring, every field of a struct whose pointer a seen
\* function converts to or from unsafe.Pointer is seen.
C8_UnsafeFieldsSeen ==
  Colored =>
    \A st \in UnsafeStructs : \A i \in 1..Len(Ty(st).fields) :
      Ty(st).fields[i] \in seen

\* colouring is over; a seen function converts in both directions and the
\* fields of the two structs, none exported, are seen
C8_Witness ==
  /\ Colored
  /\ \E s \in UnsafeStructs, t \in UnsafeStructs :
       /\ s # t
       /\ \A st \in {s, t} : \A i \in 1..Len(Ty(st).fields) :
            ~Ob(Ty(st).fields[i]).exported /\ Ty(st).fields[i] \in seen

\* the bodies of a sequence are run one after the other
RECURSIVE RunEach(_, _)
RunEach(gr, bodies) ==
  IF bodies = <<>> THEN gr
  ELSE LET g1 == Run(gr, Head(bodies)).g
       IN IF g1.err THEN g1 ELSE RunEach(g1, Tail(bodies))

\* the graph that Graph.entry builds when each of its loops visits its
\* elements in one fixed order
EntryInOrder ==
  LET ds == SetToSeq(P.defs)
      us == SetToSeq(P.uses)
      ms == SetToSeq(P.members)
      g1 == RunEach(NewGraph,
                    [i \in 1..Len(ds) |-> entryDef(ds[i])]
                    \o [i \in 1..Len(P.initfns) |->
                          entryInitialFunction(P.initfns[i])]
                    \o [i \in 1..Len(us) |-> entryUse(us[i])]
                    \o [i \in 1..Len(ms) |-> entryMember(ms[i])])
      is == SetToSeq(Ifaces(g1))
  IN RunEach(g1, [i \in 1..Len(is) |-> entryImplements(g1, is[i])])

\* the nodes that the quieting passes make quiet, given the seen nodes
QuietOf(gr, sn) == UNION {quieten(gr, sn, n) : n \in Nodes(gr)}

\* C9, as the claim has it: a pair of nodes holds one edge however often it
\* is recorded, and when Check returns the seen and the quiet nodes are
\* those of the run that visits everything in one fixed order, whatever the
\* order of this run was.
C9_OrderIndependent ==
  /\ \A d \in g.used, e \in g.used :
       d[1] = e[1] /\ d[2] = e[2] => d = e
  /\ Done =>
       /\ seen = Reachable(EntryInOrder)
       /\ quiet = QuietOf(EntryInOrder, Reachable(EntryInOrder))

\* the struct types that the type walker reached
WalkedStructs(gr) ==
  {t \in DOMAIN P.ty : Kind(t) = "Struct" /\ Key(t) \in DOMAIN gr.seenTypes}

\* the exported fields of the struct type t
ExportedFields(t) ==
  {f \in Range(Ty(t).fields) : Ob(f).exported}

\* C10, as the claim has it: once the graph is finished every exported
\* field of a struct type that the type walker reached is used by the
\* struct with reason "exported struct field"; after colouring it is seen
\* when the struct's node is, and then no record of the result names it.
C10_ExportedFieldsKept ==
  \A t \in WalkedStructs(g) : \A f \in ExportedFields(t) :
    /\ EntryOver => <<Key(t), f, "exported struct field">> \in g.used
    /\ Colored /\ Key(t) \in seen =>
         f \in seen /\ \A r \in out : r[2] # f

\* the identifiers inside the syntax of a function of the package
FunctionIdents == UNION {Range(Fn(f).uses) : f \in DOMAIN P.fn}

\* the functions whose syntax refers to the constant o
ReferringFunctions(o) ==
  {f \in DOMAIN P.fn : \E i \in 1..Len(Fn(f).uses) : UsesOf(Fn(f).uses[i]) = o}

\* the constants that an identifier outside every function refers to
ConstsOutsideFunctions ==
  {u[2] : u \in {v \in P.uses :
                   Ob(v[2]).kind = "Const" /\ v[1] \notin FunctionIdents}}

\* the constants declared in the package
DeclaredConsts == {o \in P.defs : Ob(o).kind = "Const"}

\* C11, as the claim has it: once the graph is finished a constant is used
\* by every function whose body refers to it, and it is used by Root with
\* reason "used constant" exactly when an identifier outside every function
\* refers to it; so when Check returns an unexported constant that only
\* unseen functions refer to is unseen and reported.
C11_FunctionConstsNotRooted ==
  \A o \in DeclaredConsts :
    /\ EntryOver =>
         /\ \A f \in ReferringFunctions(o) : <<f, o, "used constant">> \in g.used
         /\ <<Root, o, "used constant">> \in g.used
              <=> o \in ConstsOutsideFunctions
    /\ Done /\ ~Ob(o).exported /\ o \notin ConstsOutsideFunctions
         /\ ReferringFunctions(o) # {} /\ ReferringFunctions(o) \cap seen = {}
         => o \notin seen /\ \E r \in out : r[2] = o

\* the entities of other packages that the package refers to: semantic
\* objects, named types and lowered functions
ForeignObjects == {o \in DOMAIN P.ob : Foreign(o)}
ForeignNamed ==
  {t \in DOMAIN P.ty : Kind(t) = "Named" /\ Foreign(Ty(t).obj)}
ForeignFunctions == {f \in DOMAIN P.fn : Fn(f).pkg \notin {NIL, ThisPkg}}

\* the entity x has a node; an edge of the graph has that node as an endpoint
HasNode(gr, x) == NodeKey(x) \in Nodes(gr)
HasEdge(gr, x) ==
  \E e \in gr.used : e[1] = NodeKey(x) \/ e[2] = NodeKey(x)

ElemOf(t) == Ty(t).elem

\* C13, as the code has it: at every point of graph construction no entity
\* that isIrrelevant classifies as irrelevant has a node. An array or slice
\* type is irrelevant exactly when its element type is; a pointer type is
\* irrelevant exactly when its element type is irrelevant and is not itself
\* a pointer; a channel or map type is never irrelevant.
C13_IrrelevantNoNode ==
  /\ \A n \in Nodes(g) \ {Root} : ~isIrrelevant(g.obj[n])
  /\ \A t \in DOMAIN P.ty :
       /\ Kind(t) \in {"Array", "Slice"} =>
            (isIrrelevant(t) <=> isIrrelevant(ElemOf(t)))
       /\ Kind(t) = "Pointer" =>
            (isIrrelevant(t) <=> /\ Kind(Underlying(ElemOf(t))) # "Pointer"
                                 /\ isIrrelevant(ElemOf(t)))
       /\ Kind(t) \in {"Chan", "Map"} => ~isIrrelevant(t)

\* the graph is finished; a walked function holds a value of a channel or
\* pointer type that has a node, and the irrelevant element type has none
C13_Witness ==
  /\ EntryOver
  /\ \E f \in g.seenFns : \E i \in 1..Len(Fn(f).instrs) :
       LET t == Fn(f).instrs[i].typ IN
       /\ t # NIL /\ Kind(t) \in {"Chan", "Pointer"}
       /\ HasNode(g, t)
       /\ isIrrelevant(ElemOf(t)) /\ ~HasNode(g, ElemOf(t))

\* the relevance filter as section 4.B words it
RECURSIVE Irrelevant4B(_)
Irrelevant4B(x) ==
  IF IsObject(x) THEN
    Ob(x).kind = "Var" /\ ~Ob(x).isField /\ Irrelevant4B(Ob(x).type)
  ELSE IF IsType(x) THEN
    CASE Kind(x) \in {"Array", "Slice", "Pointer", "Chan"} ->
           Irrelevant4B(ElemOf(x))
      [] Kind(x) = "Basic" -> TRUE
      [] Kind(x) = "Tuple" ->
           \A i \in 1..Len(Ty(x).vars) : Irrelevant4B(Ty(x).vars[i])
      [] Kind(x) = "Signature" ->
           /\ Ty(x).recv = NIL
           /\ \A i \in 1..Len(Ty(x).params) : Irrelevant4B(Ty(x).params[i])
           /\ \A i \in 1..Len(Ty(x).results) : Irrelevant4B(Ty(x).results[i])
      [] Kind(x) = "Interface" -> Len(Ty(x).methods) = 0
      [] OTHER -> FALSE
  ELSE FALSE

\* C13, as the claim has it: at every point of graph construction no entity
\* that the filter of section 4.B classifies as irrelevant has a node; an
\* array, slice, pointer or channel type is irrelevant exactly when its
\* element type is.
C13_Irrelevant4BNoNode ==
  \A n \in Nodes(g) \ {Root} : ~Irrelevant4B(g.obj[n])

\* C14: no assertion of Graph.use ever fails, so construction never stops
\* on one: each recorded edge has a node at both ends, which see created
\* before use looked it up.
C14_AssertionsHold ==
  /\ ~g.err
  /\ pc # "panic"
  /\ \A ed \in g.used : ed[1] \in Nodes(g) /\ ed[2] \in Nodes(g)

\* the graph is finished; Graph.signature recorded the use of a receiver by
\* its signature and Graph.entry the use of a method by the interface that
\* it implements
C14_Witness ==
  /\ EntryOver
  /\ \E ed \in g.used : ed[3] = "receiver" /\ ed[1] # Root
  /\ \E ed \in g.used : ed[3] = "implements" /\ ed[1] # Root

\* a call of color marks a node that was not seen before
ColorOnce ==
  Len(stack') > Len(stack) =>
    /\ stack'[Len(stack')][1] \notin seen
    /\ seen' = seen \cup {stack'[Len(stack')][1]}

\* C15: Check returns for every package, also with mutually recursive named
\* types, recursive and mutually recursive functions, chains of wrappers
\* and the cycle of edges between a named type, its type name and its
\* underlying type; Graph.typ goes past its early returns at most once for
\* each type, Graph.instructions at most once for each function, and color
\* marks each node at most once.
C15_Terminates ==
  /\ <>Done
  /\ [](/\ \A k \in DOMAIN g.typWalks : g.typWalks[k] <= 1
        /\ \A f \in DOMAIN g.fnWalks : g.fnWalks[f] <= 1)
  /\ [][ColorOnce]_vars

\* the edges of kind reason recorded between two distinct nodes, both ways
BothWays(gr, reason) ==
  {ed \in gr.used : /\ ed[3] = reason /\ ed[1] # ed[2]
                    /\ <<ed[2], ed[1], reason>> \in gr.used}

\* Check has returned; two named types were walked whose structs point to
\* each other, a named type and its type name use each other, and two
\* functions call each other or a wrapper that calls a wrapper was walked
C15_Witness ==
  /\ Done
  /\ \E t, u \in DOMAIN g.typWalks :
       /\ t # u /\ Kind(t) = "Named" /\ Kind(u) = "Named"
       /\ \E i \in 1..Len(Ty(Underlying(t)).fields) :
            Dereference(Ob(Ty(Underlying(t)).fields[i]).type) = u
       /\ \E i \in 1..Len(Ty(Underlying(u)).fields) :
            Dereference(Ob(Ty(Underlying(u)).fields[i]).type) = t
       /\ <<t, Ty(t).obj, "type name">> \in g.used
       /\ <<Ty(t).obj, t, "named type">> \in g.used
  /\ \/ BothWays(g, "function call") # {}
     \/ \E w \in DOMAIN g.fnWalks, v \in DOMAIN g.fnWalks :
          /\ IsWrapper(w) /\ IsWrapper(v)
          /\ <<w, v, "function call">> \in g.used

\* the semantic functions that have a canonical lowered function
ConcreteFuncs == {o \in DOMAIN P.ob : IsFuncObj(o) /\ FuncValue(o) # NIL}

\* C16, as the claim has it: when Check returns, no semantic function whose
\* canonical lowered function is seen is in the output, and no semantic
\* object is in the output more than once; an unseen wrapper of the
\* function does not cause a report for it.
C16_ReportedOnce ==
  Done =>
    /\ \A r \in out : r[2] \in ConcreteFuncs => FuncValue(r[2]) \notin seen
    /\ \A r1, r2 \in out : r1[2] = r2[2] => r1 = r2

====
